---- MODULE Spec2Model ----
(***************************************************************************)
(* Model of src/main.rs: the three sub-commands init, cat-file -p and      *)
(* hash-object [-w], the filesystem they share (the .git directory, the    *)
(* file "temporary" in the working directory, the object files), and the   *)
(* two stream adapters HashWriter and LimitReader.                         *)
(*                                                                         *)
(* Bytes are integers 0..255; a string is the sequence of its bytes.       *)
(* A file is an inode holding a sequence of stored bytes.  The zlib        *)
(* library is abstracted: the compressed form of byte b is the token       *)
(* 256+b, the final deflate block and checksum is the token ZEnd, and a    *)
(* stream is complete only if it is a run of such tokens closed by ZEnd.   *)
(* What the decoder reports when a stream stops short of ZEnd depends on   *)
(* the zlib backend (an error, or a plain end of stream): both are kept.   *)
(* SHA-1 is abstracted by a collision-free 20-byte digest.                 *)
(***************************************************************************)
EXTENDS Integers, Sequences, FiniteSets, TLC

\* ---------------------------------------------------------------- bounds
MaxLen == 1          \* longest input file, in bytes
MaxBuf == 2          \* longest buffer io::copy hands to LimitReader::read
MaxCmds == 3         \* number of commands run in one behaviour

Procs == {1, 2}      \* concurrently running invocations of the binary
FileBytes == {97}       \* the bytes input files are made of: 'a'
BodyBytes == {0, 97}    \* the bytes of objects other programs wrote

\* ------------------------------------------------------------- constants
NUL == 0
SP == 32
LF == 10
HashLen == 40
DigestLen == 20
ZBase == 256
ZEnd == 512
Hole == 0

blob == <<98, 108, 111, 98>>
tree == <<116, 114, 101, 101>>
InitMessage == <<73, 110, 105, 116, 105, 97, 108, 105, 122, 101, 100, 32,
                 103, 105, 116, 32, 100, 105, 114, 101, 99, 116, 111, 114,
                 121, 10>>

GIT_DIR == ".git"
GIT_OBJECT_DIR == ".git/objects"
GIT_REF_DIR == ".git/refs"
GIT_HEAD == ".git/HEAD"
HeadRef == "ref: refs/heads/main\n"

Contents == UNION {[1..n -> FileBytes] : n \in 0..MaxLen}

\* ------------------------------------------------------- pure functions
Min(a, b) == IF a < b THEN a ELSE b
Max(a, b) == IF a > b THEN a ELSE b

Take(s, n) == SubSeq(s, 1, Min(n, Len(s)))
Drop(s, n) == SubSeq(s, n + 1, Len(s))

RECURSIVE Decimal(_)
\* format!("{}", n) of an unsigned integer
Decimal(n) == IF n < 10 THEN <<48 + n>>
              ELSE Decimal(n \div 10) \o <<48 + (n % 10)>>

HexDigit(n) == IF n < 10 THEN 48 + n ELSE 87 + n

RECURSIVE hex_encode(_)
\* hex::encode: two lowercase hex characters per byte
hex_encode(bytes) ==
    IF bytes = <<>> THEN <<>>
    ELSE <<HexDigit(Head(bytes) \div 16), HexDigit(Head(bytes) % 16)>>
         \o hex_encode(Tail(bytes))

Reverse(s) == [i \in 1..Len(s) |-> s[Len(s) + 1 - i]]

\* Sha1::finalize over the bytes folded in: a 20-byte digest, injective on
\* messages shorter than DigestLen (the collision-free assumption).
Sha1(msg) ==
    Reverse(msg) \o <<128>> \o [i \in 1..(DigestLen - 1 - Len(msg)) |-> 0]

\* format!("{GIT_OBJECT_DIR}/{}/{}", &hash[..2], &hash[2..])
ObjectPath(hash) == <<SubSeq(hash, 1, 2), SubSeq(hash, 3, Len(hash))>>

\* ZlibEncoder: the compressed output for the bytes fed in, without the
\* final block that finish() emits.
Deflate(bytes) == [i \in 1..Len(bytes) |-> ZBase + bytes[i]]

RECURSIVE ZlibDecode(_, _)
\* ZlibDecoder: the bytes a stored file decodes to from position i, and how
\* the stream stops: at its end marker, cut off before it, or at bytes that
\* are no deflate data.
ZlibDecode(data, i) ==
    IF i > Len(data) THEN [bytes |-> <<>>, end |-> "truncated"]
    ELSE IF data[i] = ZEnd THEN [bytes |-> <<>>, end |-> "end"]
    ELSE IF data[i] >= ZBase /\ data[i] < ZEnd
         THEN LET r == ZlibDecode(data, i + 1)
              IN  [bytes |-> <<data[i] - ZBase>> \o r.bytes, end |-> r.end]
         ELSE [bytes |-> <<>>, end |-> "corrupt"]

\* whether a read at the point where the stream stops returns 0 bytes (end
\* of stream) and not an error; lenient: the backend takes a cut-off stream
\* for ended
ZlibEof(d, lenient) == d.end = "end" \/ (d.end = "truncated" /\ lenient)

\* write(2) of toks at byte offset off of a file holding data
WriteAt(data, off, toks) ==
    IF toks = <<>> THEN data
    ELSE [i \in 1..Max(Len(data), off + Len(toks)) |->
            IF i > off /\ i <= off + Len(toks) THEN toks[i - off]
            ELSE IF i <= Len(data) THEN data[i]
            ELSE Hole]

\* HashWriter_write that hashes the buffer it was given, not what of it the
\* inner writer took
HashWriter_writeWholeBuffer(w, buf, n) ==
    [writer |-> w.writer \o Take(buf, n), hasher |-> w.hasher \o buf]

\* HashWriter::write when the inner writer accepts n bytes of buf: the
\* accepted bytes go to the inner writer and into the digest.
HashWriter_write(w, buf, n) ==
    [writer |-> w.writer \o Take(buf, n), hasher |-> w.hasher \o Take(buf, n)]

\* write!/io::copy through a HashWriter whose inner ZlibEncoder accepts all
write_all(w, buf) == HashWriter_write(w, buf, Len(buf))

\* the header write_blob emits for a file of stat.len() = n bytes
write_blob_header(n) == blob \o Decimal(n) \o <<NUL>>

\* ----------------------------------------------------------------- state
VARIABLES
    repo,       \* the paths init creates: path |-> "dir" or file content
    fanout,     \* the two-character directories present under .git/objects
    files,      \* inode |-> stored bytes, for every inode still referenced
    tmp,        \* inode of the file "temporary", 0 when there is none
    objects,    \* <<dir, name>> |-> inode, for the files under .git/objects
    proc,       \* per invocation: its arguments, locals and position
    history     \* the finished invocations, in order of completion

vars == <<repo, fanout, files, tmp, objects, proc, history>>

NoFile == 0
NoPath == <<>>

Idle == [pc |-> "idle", cmd |-> "none", write |-> FALSE, file |-> <<>>,
         pretty_print |-> FALSE, object_hash |-> <<>>,
         fd |-> NoFile, off |-> 0,
         w |-> [writer |-> <<>>, hasher |-> <<>>], stat_len |-> 0,
         hash |-> <<>>, opened |-> NoPath, pos |-> 0, limit |-> 0,
         size |-> 0, n |-> 0, buf |-> <<>>, stdout |-> <<>>,
         todo |-> <<>>]

EmptyFn == [x \in {} |-> 0]

Running == {p \in Procs : proc[p].pc # "idle"}

Range(f) == {f[x] : x \in DOMAIN f}

\* the inodes a path or an open descriptor still refers to
Live(fs, t, objs, pr) ==
    [i \in (DOMAIN fs) \cap
           (({t} \cup Range(objs) \cup {pr[p].fd : p \in Procs}) \ {NoFile})
        |-> fs[i]]

FreshInode == CHOOSE i \in 1..(Cardinality(DOMAIN files) + 1) :
                 i \notin DOMAIN files

\* what is kept of an invocation that has ended
Entry(p, r, result, out) ==
    [proc |-> p, cmd |-> r.cmd, write |-> r.write, file |-> r.file,
     pretty_print |-> r.pretty_print, object_hash |-> r.object_hash,
     hash |-> r.hash, opened |-> r.opened,
     result |-> result, stdout |-> out]

\* the process with locals r exits: its outcome and output are recorded
Exit(p, r, result, out) ==
    /\ history' = Append(history, Entry(p, r, result, out))
    /\ proc' = [proc EXCEPT ![p] = Idle]

CanStart(p) ==
    /\ proc[p].pc = "idle"
    /\ Len(history) + Cardinality(Running) < MaxCmds

\* ------------------------------------------------------------- Command::Init
CommandInit(p) ==
    /\ CanStart(p)
    /\ IF GIT_DIR \in DOMAIN repo
       THEN \* fs::create_dir(GIT_DIR).unwrap() panics
            /\ Exit(p, [Idle EXCEPT !.cmd = "init"], "Panic", <<>>)
            /\ UNCHANGED repo
       ELSE /\ repo' = (GIT_DIR :> "dir") @@ (GIT_OBJECT_DIR :> "dir")
                       @@ (GIT_REF_DIR :> "dir") @@ (GIT_HEAD :> HeadRef)
            /\ Exit(p, [Idle EXCEPT !.cmd = "init"], "Ok", InitMessage)
    /\ UNCHANGED <<fanout, files, tmp, objects>>

\* ------------------------------------------------------- Command::HashObject
\* HashObject that opens the temporary file without looking at write
HashObjectAlwaysCreates(p, write, content) ==
    /\ CanStart(p)
    /\ proc' = [proc EXCEPT ![p] =
          [Idle EXCEPT !.pc = "create",
                       !.cmd = "hash-object", !.write = write,
                       !.file = content]]
    /\ UNCHANGED <<repo, fanout, files, tmp, objects, history>>

\* hash-object up to the branch on write (main.rs:157): with -w the next
\* step is File::create, without it write_blob on io::sink()
HashObject(p, write, content) ==
    /\ CanStart(p)
    /\ proc' = [proc EXCEPT ![p] =
          [Idle EXCEPT !.pc = IF write THEN "create" ELSE "stat",
                       !.cmd = "hash-object", !.write = write,
                       !.file = content]]
    /\ UNCHANGED <<repo, fanout, files, tmp, objects, history>>

\* File::create("temporary"): creates the file, or truncates the one that
\* is there; every invocation uses this one name
FileCreate(p) ==
    /\ proc[p].pc = "create"
    /\ LET ino == IF tmp = NoFile THEN FreshInode ELSE tmp
       IN  /\ tmp' = ino
           /\ proc' = [proc EXCEPT ![p].pc = "stat", ![p].fd = ino,
                                   ![p].off = 0]
           /\ files' = Live((ino :> <<>>) @@ files, tmp', objects, proc')
    /\ UNCHANGED <<repo, fanout, objects, history>>

\* write_blob: fs::metadata, ZlibEncoder::new, the two header write!s
WriteBlobHeader(p) ==
    /\ proc[p].pc = "stat"
    /\ LET len == Len(proc[p].file)
       IN  proc' = [proc EXCEPT ![p].pc = "copy", ![p].stat_len = len,
                       ![p].w = write_all(write_all(proc[p].w, blob),
                                          Decimal(len) \o <<NUL>>)]
    /\ UNCHANGED <<repo, fanout, files, tmp, objects, history>>

\* the encoder hands its output up to token k to the file behind fd
Dump(p, w, k, tail) ==
    IF proc[p].fd = NoFile \/ proc[p].fd \notin DOMAIN files THEN files
    ELSE [files EXCEPT ![proc[p].fd] =
            WriteAt(@, proc[p].off,
                    SubSeq(Deflate(w.writer), proc[p].off + 1, k) \o tail)]

\* write_blob: File::open and io::copy of the file into the writer; the
\* encoder passes on as much of its output as its buffer makes it (k)
WriteBlobCopy(p, k) ==
    /\ proc[p].pc = "copy"
    /\ LET w == write_all(proc[p].w, proc[p].file)
       IN  /\ k \in 0..Len(w.writer)
           /\ \/ proc[p].write
              \/ k = 0
           /\ files' = Dump(p, w, k, <<>>)
           /\ proc' = [proc EXCEPT ![p].pc = "finish", ![p].w = w,
                                   ![p].off = k]
    /\ UNCHANGED <<repo, fanout, tmp, objects, history>>

\* write_blob: writer.writer.finish(), hasher.finalize(), hex::encode
WriteBlobFinish(p) ==
    /\ proc[p].pc = "finish"
    /\ files' = Dump(p, proc[p].w, Len(proc[p].w.writer), <<ZEnd>>)
    /\ proc' = [proc EXCEPT ![p].pc = IF proc[p].write THEN "rename"
                                                        ELSE "print",
                            ![p].off = Len(proc[p].w.writer) + 1,
                            ![p].hash = hex_encode(Sha1(proc[p].w.hasher))]
    /\ UNCHANGED <<repo, fanout, tmp, objects, history>>

\* write_blob one write call at a time.  fs::metadata and the construction
\* of the writers; the first write_all has "blob" to write
WriteBlobStat(p) ==
    /\ proc[p].pc = "stat"
    /\ proc' = [proc EXCEPT ![p].pc = "w_kind",
                            ![p].stat_len = Len(proc[p].file),
                            ![p].todo = blob]
    /\ UNCHANGED <<repo, fanout, files, tmp, objects, history>>

\* what follows a write_all that has written all it had: the write! of the
\* size and the NUL, then io::copy of the file, then finish
AfterWriteAll(r) ==
    IF r.pc = "w_kind"
    THEN [r EXCEPT !.pc = "w_size", !.todo = Decimal(r.stat_len) \o <<NUL>>]
    ELSE IF r.pc = "w_size" /\ r.file # <<>>
    THEN [r EXCEPT !.pc = "w_copy", !.todo = r.file]
    ELSE [r EXCEPT !.pc = "finish"]

\* one HashWriter::write call made by write_all: the encoder takes the
\* first n bytes of what is left to write; write_all calls again with the
\* rest, and gives up (WriteZero) when n is 0
HashWriterWrite(p, n) ==
    /\ proc[p].pc \in {"w_kind", "w_size", "w_copy"}
    /\ n \in 0..Len(proc[p].todo)
    /\ LET w == HashWriter_write(proc[p].w, proc[p].todo, n)
           r == [proc[p] EXCEPT !.w = w, !.todo = Drop(@, n),
                                !.off = IF proc[p].write
                                        THEN Len(w.writer) ELSE 0]
       IN  /\ files' = Dump(p, w, Len(w.writer), <<>>)
           /\ proc' = [proc EXCEPT ![p] =
                  IF n = 0 THEN [r EXCEPT !.pc = "w_err"]
                  ELSE IF r.todo = <<>> THEN AfterWriteAll(r)
                  ELSE r]
    /\ UNCHANGED <<repo, fanout, tmp, objects, history>>

\* a HashWriter::write call in which self.writer.write(buf)? is an Err: the
\* call returns before Digest::update
HashWriterWriteErr(p) ==
    /\ proc[p].pc \in {"w_kind", "w_size", "w_copy"}
    /\ proc' = [proc EXCEPT ![p].pc = "w_err"]
    /\ UNCHANGED <<repo, fanout, files, tmp, objects, history>>

\* the error of a write goes up through write_blob's ? and ends main
WriteBlobErr(p) ==
    /\ proc[p].pc = "w_err"
    /\ Exit(p, proc[p], "IOFailure", <<>>)
    /\ files' = Live(files, tmp, objects, proc')
    /\ UNCHANGED <<repo, fanout, tmp, objects>>

\* another program rewrites the input file after write_blob's fs::metadata
\* and before its File::open and io::copy, which read what is there then
ModifyFile(p, content) ==
    /\ proc[p].cmd = "hash-object"
    /\ proc[p].pc = "copy"
    /\ content # proc[p].file
    /\ proc' = [proc EXCEPT ![p].file = content]
    /\ UNCHANGED <<repo, fanout, files, tmp, objects, history>>

\* whether fs::rename("temporary", .git/objects/<dir>/<name>) can succeed
RenameOk(path) ==
    /\ tmp # NoFile
    /\ GIT_OBJECT_DIR \in DOMAIN repo
    /\ path[1] \in fanout

\* fs::rename of the temporary file to the object path, then println!
Rename(p) ==
    /\ proc[p].pc = "rename"
    /\ LET path == ObjectPath(proc[p].hash)
       IN  IF RenameOk(path)
           THEN /\ objects' = (path :> tmp) @@ objects
                /\ tmp' = NoFile
                /\ Exit(p, proc[p], "Ok", proc[p].hash \o <<LF>>)
                /\ files' = Live(files, tmp', objects', proc')
           ELSE /\ Exit(p, proc[p], "IOFailure", <<>>)
                /\ files' = Live(files, tmp, objects, proc')
                /\ UNCHANGED <<tmp, objects>>
    /\ UNCHANGED <<repo, fanout>>

\* hash-object without -w: println! of the hash
PrintHash(p) ==
    /\ proc[p].pc = "print"
    /\ Exit(p, proc[p], "Ok", proc[p].hash \o <<LF>>)
    /\ UNCHANGED <<repo, fanout, files, tmp, objects>>

\* another program creates a directory .git/objects/<dir>; nothing in
\* main.rs does, and fs::rename needs it
MkObjectDir(dir) ==
    /\ GIT_OBJECT_DIR \in DOMAIN repo
    /\ dir \notin fanout
    /\ fanout' = fanout \cup {dir}
    /\ UNCHANGED <<repo, files, tmp, objects, proc, history>>

\* ---------------------------------------------------------- Command::CatFile
\* the test on the hash argument that cat-file makes before it opens a file
HashArgOk(object_hash) == Len(object_hash) = HashLen

\* File::open of the object path: the inode, or NoFile when it fails
OpenObject(path) ==
    IF GIT_OBJECT_DIR \in DOMAIN repo /\ path \in DOMAIN objects
    THEN objects[path] ELSE NoFile

\* OpenError that does not tell a missing file from any other failure
OpenErrorGeneric(path) == "IOFailure"

\* the error of a File::open that fails: with the model's file system the
\* only cause is that no file is at the path (io::ErrorKind::NotFound)
OpenError(path) == "NotFound"

\* cat-file up to File::open: the two ensure!s and the open
CatFile(p, pretty_print, object_hash) ==
    /\ CanStart(p)
    /\ LET r == [Idle EXCEPT !.cmd = "cat-file",
                             !.pretty_print = pretty_print,
                             !.object_hash = object_hash]
           path == ObjectPath(object_hash)
       IN  IF ~pretty_print THEN
               Exit(p, r, "InvalidInput", <<>>)
           ELSE IF ~HashArgOk(object_hash) THEN
               Exit(p, r, "InvalidInput", <<>>)
           ELSE IF OpenObject(path) = NoFile THEN
               Exit(p, [r EXCEPT !.opened = path], OpenError(path), <<>>)
           ELSE
               /\ proc' = [proc EXCEPT ![p] =
                     [r EXCEPT !.pc = "cat_header", !.opened = path,
                               !.fd = OpenObject(path)]]
               /\ UNCHANGED history
    /\ UNCHANGED <<repo, fanout, files, tmp, objects>>

\* index of the first b in s, 0 when there is none
IndexOf(s, b) ==
    IF \E i \in 1..Len(s) : s[i] = b
    THEN CHOOSE i \in 1..Len(s) : s[i] = b /\ \A j \in 1..(i - 1) : s[j] # b
    ELSE 0

\* CStr::to_str on bytes of the model's alphabet: a byte above 127 standing
\* alone is not UTF-8
IsUtf8(s) == \A i \in 1..Len(s) : s[i] < 128

IsDigit(b) == b >= 48 /\ b <= 57

RECURSIVE DigitsValue(_)
DigitsValue(s) == IF s = <<>> THEN 0
                  ELSE 10 * DigitsValue(SubSeq(s, 1, Len(s) - 1))
                       + (s[Len(s)] - 48)

\* str::parse::<u64>: an optional '+', then one or more digits; -1 is Err
parse_u64(s) ==
    LET digits == IF s # <<>> /\ s[1] = 43 THEN Tail(s) ELSE s
    IN  IF digits # <<>> /\ \A i \in 1..Len(digits) : IsDigit(digits[i])
        THEN DigitsValue(digits) ELSE -1

\* ParseHeader that looks for the prefix "blob " before it looks at the kind
ParseHeaderPrefixFirst(header) ==
    LET sp == IndexOf(header, SP)
        size == parse_u64(Drop(header, Len(blob) + 1))
    IN  IF ~IsUtf8(header) THEN [result |-> "Corrupt", size |-> 0]
        ELSE IF Take(header, Len(blob) + 1) # blob \o <<SP>>
             THEN [result |-> "Corrupt", size |-> 0]
        ELSE IF size < 0 THEN [result |-> "Corrupt", size |-> 0]
        ELSE [result |-> "Ok", size |-> size]

\* cat-file from header.to_str() to size.parse(): the outcome for the bytes
\* read before the NUL, and the size when the outcome is Ok
ParseHeader(header) ==
    LET sp == IndexOf(header, SP)
        kind == Take(header, sp - 1)
        size == parse_u64(Drop(header, Len(blob) + 1))
    IN  IF ~IsUtf8(header) THEN [result |-> "Corrupt", size |-> 0]
        ELSE IF sp = 0 THEN [result |-> "Corrupt", size |-> 0]
        ELSE IF kind # blob THEN [result |-> "UnsupportedKind", size |-> 0]
        ELSE IF size < 0 THEN [result |-> "Corrupt", size |-> 0]
        ELSE [result |-> "Ok", size |-> size]

\* cat-file from ZlibDecoder::new to the construction of the LimitReader
ReadHeader(p, lenient) ==
    /\ proc[p].pc = "cat_header"
    /\ LET d == ZlibDecode(files[proc[p].fd], 1)
           nul == IndexOf(d.bytes, NUL)
           h == ParseHeader(Take(d.bytes, nul - 1))
       IN  IF nul = 0 THEN
               \* read_until fails on a broken stream; at end of stream it
               \* returns what it has and from_bytes_until_nul's expect panics
               Exit(p, proc[p], IF ZlibEof(d, lenient) THEN "Panic"
                                 ELSE "IOFailure", <<>>)
           ELSE IF h.result # "Ok" THEN
               Exit(p, proc[p], h.result, <<>>)
           ELSE
               /\ proc' = [proc EXCEPT ![p].pc = "cat_copy", ![p].pos = nul,
                              ![p].buf = Take(d.bytes, nul),
                              ![p].size = h.size, ![p].limit = h.size]
               /\ UNCHANGED history
    /\ UNCHANGED <<repo, fanout, files, tmp, objects>>

\* LimitReader_cap with the buffer cut to limit, not limit + 1
LimitReader_capExact(limit, len) == IF len > limit THEN limit ELSE len

\* LimitReader::read, the buffer: one of len bytes is cut to limit + 1
LimitReader_cap(limit, len) == IF len > limit THEN limit + 1 ELSE len

\* LimitReader_read that returns what fits and reports no error
LimitReader_readTruncating(limit, m) ==
    [err |-> FALSE, limit |-> limit - Min(m, limit), n |-> Min(m, limit)]

\* LimitReader::read when the inner reader delivers m bytes into the
\* (shortened) buffer
LimitReader_read(limit, m) ==
    IF m > limit THEN [err |-> TRUE, limit |-> limit, n |-> 0]
    ELSE [err |-> FALSE, limit |-> limit - m, n |-> m]

\* one turn of io::copy(&mut zlib, &mut buf): a read through the
\* LimitReader and the append of what it returned to buf
CopyRead(p, len, m, lenient) ==
    /\ proc[p].pc = "cat_copy"
    /\ LET d == ZlibDecode(files[proc[p].fd], 1)
           avail == Max(0, Len(d.bytes) - proc[p].pos)
           cap == LimitReader_cap(proc[p].limit, len)
           r == LimitReader_read(proc[p].limit, m)
       IN  /\ len \in 1..MaxBuf
           /\ m \in 0..Min(cap, avail)
           /\ m = 0 => (avail = 0 \/ cap = 0)
           /\ IF avail = 0 /\ ~ZlibEof(d, lenient) THEN
                  Exit(p, proc[p], "IOFailure", <<>>)
              ELSE IF r.err THEN
                  Exit(p, proc[p], "SizeMismatch", <<>>)
              ELSE
                  /\ proc' = [proc EXCEPT
                        ![p].pc = IF m = 0 THEN "cat_ensure" ELSE "cat_copy",
                        ![p].limit = r.limit,
                        ![p].pos = proc[p].pos + m,
                        ![p].n = proc[p].n + r.n,
                        ![p].buf = proc[p].buf \o
                            SubSeq(d.bytes, proc[p].pos + 1,
                                   proc[p].pos + r.n)]
                  /\ UNCHANGED history
    /\ UNCHANGED <<repo, fanout, files, tmp, objects>>

\* EnsureSize without the comparison
EnsureSizeSkipped(n, size) == "Ok"

\* the outcome of ensure!(n == size) after the copy
EnsureSize(n, size) == IF n = size THEN "Ok" ELSE "SizeMismatch"

\* cat-file after io::copy returned n: the ensure!, and the end of main;
\* the copy went into buf, nothing was written to stdout
CatFileEnd(p) ==
    /\ proc[p].pc = "cat_ensure"
    /\ Exit(p, proc[p], EnsureSize(proc[p].n, proc[p].size), proc[p].stdout)
    /\ UNCHANGED <<repo, fanout, files, tmp, objects>>

\* ------------------------------------------------------------ environments
\* the hash hash-object prints for a file holding content
BlobHash(content) ==
    hex_encode(Sha1(write_blob_header(Len(content)) \o content))

\* hash arguments of the wrong shape: "abc", forty 'z', thirty-nine '0'
BadArgs == {<<97, 98, 99>>, [i \in 1..HashLen |-> 122],
            [i \in 1..(HashLen - 1) |-> 48]}

\* a well-shaped hash that names no object: forty '0'
ZeroHash == [i \in 1..HashLen |-> 48]

ObjectDirs == {ObjectPath(BlobHash(c))[1] : c \in Contents}

\* a kind token that is not UTF-8
NotText == <<255>>

\* the decompressed streams of objects written by other programs or by
\* hand: <kind><sep><size><term><body>, and the empty stream
Bodies == UNION {[1..n -> BodyBytes] : n \in 0..(MaxLen + 1)}
SizeTokens == {Decimal(n) : n \in 0..(MaxLen + 1)} \cup {<<43, 49>>, <<120>>, <<>>}
Streams == {k \o sep \o sz \o t \o b :
              k \in {blob, tree, NotText}, sep \in {<<SP>>, <<>>},
              sz \in SizeTokens, t \in {<<NUL>>, <<>>}, b \in Bodies}
           \cup {<<>>}

\* another program stores an object file whose stream is s, complete
\* (closed by the final block) or cut off
PlaceObject(s, complete) ==
    /\ objects = EmptyFn
    /\ LET path == ObjectPath(hex_encode(Sha1(s)))
           ino == FreshInode
       IN  /\ fanout' = fanout \cup {path[1]}
           /\ objects' = (path :> ino) @@ objects
           /\ files' = (ino :> (Deflate(s) \o IF complete THEN <<ZEnd>>
                                                        ELSE <<>>)) @@ files
    /\ UNCHANGED <<repo, tmp, proc, history>>

StoredHashes == {path[1] \o path[2] : path \in DOMAIN objects}

\* -------------------------------------------------------- specifications
Fresh ==
    /\ fanout = {}
    /\ files = EmptyFn
    /\ tmp = NoFile
    /\ objects = EmptyFn
    /\ proc = [p \in Procs |-> Idle]
    /\ history = <<>>

NoRepo == [x \in {} |-> ""]

Initialized == (GIT_DIR :> "dir") @@ (GIT_OBJECT_DIR :> "dir")
               @@ (GIT_REF_DIR :> "dir") @@ (GIT_HEAD :> HeadRef)

\* the state init leaves
InitStore == Fresh /\ repo = Initialized

\* either nothing has run yet, or init has
Init == Fresh /\ repo \in {NoRepo, Initialized}

\* the hashes earlier hash-object invocations printed
PrintedHashes ==
    {history[i].hash : i \in {j \in 1..Len(history) :
                                 /\ history[j].cmd = "hash-object"
                                 /\ history[j].result = "Ok"}}

\* the steps of hash-object -w after its start
HashObjectSteps(p) ==
    \/ FileCreate(p)
    \/ WriteBlobHeader(p)
    \/ \E k \in 0..(Len(blob) + 2 + MaxLen) : WriteBlobCopy(p, k)
    \/ WriteBlobFinish(p)
    \/ Rename(p)

\* one invocation at a time, one after the other.  cat-file of an object
\* that hash-object wrote ends in ReadHeader (NoCopyInSpec), so the steps
\* after it have no part here; SpecStore has them.
Next ==
    \/ CommandInit(1)
    \/ \E c \in Contents : \E write \in BOOLEAN : HashObject(1, write, c)
    \/ \E h \in PrintedHashes \cup {ZeroHash} : CatFile(1, TRUE, h)
    \/ HashObjectSteps(1)
    \/ PrintHash(1)
    \/ \E lenient \in BOOLEAN : ReadHeader(1, lenient)
    \/ \E d \in ObjectDirs : MkObjectDir(d)

Spec == Init /\ [][Next]_vars

\* under Spec no cat-file gets past the header
NoCopyInSpec == \A p \in Procs : proc[p].pc \notin {"cat_copy", "cat_ensure"}

\* hash-object -w invocations running at the same time
NextConc ==
    \/ \E p \in Procs : \E c \in Contents :
          /\ \A i \in 1..Len(history) : history[i].proc # p
          /\ HashObject(p, TRUE, c)
    \/ \E p \in Procs : HashObjectSteps(p)
    \/ \E d \in ObjectDirs : MkObjectDir(d)

SpecConc == InitStore /\ [][NextConc]_vars

\* cat-file on a store that holds an object another program wrote
NextStore ==
    \/ \E s \in Streams : \E complete \in BOOLEAN : PlaceObject(s, complete)
    \/ \E h \in StoredHashes \cup BadArgs \cup {ZeroHash} :
          \E pretty_print \in BOOLEAN :
             /\ history = <<>>
             /\ CatFile(1, pretty_print, h)
    \/ \E lenient \in BOOLEAN : ReadHeader(1, lenient)
    \/ \E len \in 1..MaxBuf : \E m \in 0..MaxBuf : \E lenient \in BOOLEAN :
          CopyRead(1, len, m, lenient)
    \/ CatFileEnd(1)

SpecStore == InitStore /\ [][NextStore]_vars

\* one hash-object whose input file another program may rewrite while it
\* runs
NextRace ==
    \/ \E c \in Contents : \E write \in BOOLEAN :
          /\ history = <<>>
          /\ HashObject(1, write, c)
    \/ \E c \in Contents : ModifyFile(1, c)
    \/ HashObjectSteps(1)
    \/ PrintHash(1)
    \/ \E d \in ObjectDirs : MkObjectDir(d)

SpecRace == InitStore /\ [][NextRace]_vars

\* one hash-object whose writer may take part of a buffer, or fail
NextHash ==
    \/ \E c \in Contents : \E write \in BOOLEAN :
          /\ history = <<>>
          /\ HashObject(1, write, c)
    \/ FileCreate(1)
    \/ WriteBlobStat(1)
    \/ \E n \in 0..(Len(blob) + MaxLen) : HashWriterWrite(1, n)
    \/ HashWriterWriteErr(1)
    \/ WriteBlobErr(1)
    \/ WriteBlobFinish(1)
    \/ Rename(1)
    \/ PrintHash(1)
    \/ \E d \in ObjectDirs : MkObjectDir(d)

SpecHash == InitStore /\ [][NextHash]_vars

\* ------------------------------------------------------------- properties
\* the blob encoding of the object format: "blob", a space, the decimal
\* length, a NUL, the content
GitHeader(n) == blob \o <<SP>> \o Decimal(n) \o <<NUL>>
GitBlob(content) == GitHeader(Len(content)) \o content

Entries == {history[i] : i \in 1..Len(history)}

IsPut(e) == e.cmd = "hash-object" /\ e.write
IsGet(e) == e.cmd = "cat-file" /\ e.pretty_print

\* C1: round trip - whenever hash-object -w on a file holding c has printed
\* a hash, a later cat-file -p of that hash succeeds and prints exactly c.
C1_RoundTrip ==
    \A i \in 1..Len(history) : \A j \in (i + 1)..Len(history) :
        (/\ IsPut(history[i]) /\ history[i].result = "Ok"
         /\ IsGet(history[j]) /\ history[j].object_hash = history[i].hash)
        => /\ history[j].result = "Ok"
           /\ history[j].stdout = history[i].file

\* C2: content addressing - every file under .git/objects holds a complete
\* compressed stream, and the hex SHA-1 of the bytes it decompresses to is
\* the name of the file (directory and file name joined).
C2_ContentAddressed ==
    \A path \in DOMAIN objects :
        LET d == ZlibDecode(files[objects[path]], 1)
        IN  /\ d.end = "end"
            /\ hex_encode(Sha1(d.bytes)) = path[1] \o path[2]

\* a hash-object -w that holds its temporary file open
Filling(p) ==
    /\ proc[p].cmd = "hash-object"
    /\ proc[p].write
    /\ proc[p].pc \in {"stat", "copy", "finish", "rename"}

\* C3: two hash-object -w invocations in flight at the same time on
\* different content never have the same temporary file open.
C3_DistinctTemporaries ==
    \A p \in Procs : \A q \in Procs \ {p} :
        (Filling(p) /\ Filling(q) /\ proc[p].file # proc[q].file)
        => proc[p].fd # proc[q].fd

\* C4: atomic visibility - once a hash-object -w has renamed its file and
\* printed hash h, the file at the path of h is a complete stream of the
\* whole header and content that invocation hashed, and no invocation
\* still has it open for writing.
C4_AtomicVisibility ==
    \A e \in Entries :
        (IsPut(e) /\ e.result = "Ok")
        => /\ ObjectPath(e.hash) \in DOMAIN objects
           /\ LET ino == objects[ObjectPath(e.hash)]
                  d == ZlibDecode(files[ino], 1)
              IN  /\ d.end = "end"
                  /\ e.hash = hex_encode(Sha1(d.bytes))
                  /\ \A p \in Procs : proc[p].fd # ino

\* C5: header encoding - the bytes hash-object has hashed and compressed
\* when the copy is done are "blob", a space, the decimal length, a NUL and
\* the content, and the hash it goes on to print is the hex SHA-1 of them.
C5_HeaderEncoding ==
    \A p \in Procs :
        /\ proc[p].pc = "finish"
           => /\ proc[p].w.hasher = GitBlob(proc[p].file)
              /\ proc[p].w.writer = GitBlob(proc[p].file)
        /\ proc[p].pc \in {"rename", "print"}
           => proc[p].hash = hex_encode(Sha1(GitBlob(proc[p].file)))

\* C6: on an initialised store, the hash-object -w that has just ended
\* ended with success and its object file is at the path of the hash it
\* printed, whether or not the two-character directory was there.
C6_PutReachesDone ==
    \A i \in 1..Len(history) :
        (/\ i = Len(history)
         /\ IsPut(history[i])
         /\ GIT_OBJECT_DIR \in DOMAIN repo)
        => /\ history[i].result = "Ok"
           /\ ObjectPath(history[i].hash) \in DOMAIN objects

\* C7: idempotence - after a hash-object -w of c that succeeded, a second
\* hash-object -w of c succeeds with the same hash, and a cat-file -p of
\* that hash after the two succeeds and prints c.
C7_Idempotent ==
    \A i \in 1..Len(history) : \A j \in (i + 1)..Len(history) :
        (/\ IsPut(history[i]) /\ history[i].result = "Ok"
         /\ IsPut(history[j]) /\ history[j].file = history[i].file)
        => /\ history[j].result = "Ok"
           /\ history[j].hash = history[i].hash
           /\ \A k \in (j + 1)..Len(history) :
                 (IsGet(history[k])
                    /\ history[k].object_hash = history[j].hash)
                 => /\ history[k].result = "Ok"
                    /\ history[k].stdout = history[i].file

\* the stream the object file opened by the ended cat-file e decodes to
ObjectOf(e) == ZlibDecode(files[objects[e.opened]], 1)

\* C8: cat-file -p of a well-formed object - a complete stream of
\* "blob <size>\0" and exactly size content bytes - succeeds and has
\* written exactly those content bytes to standard output.
C8_CatEmitsContent ==
    \A e \in Entries : \A c \in Bodies :
        (/\ IsGet(e) /\ e.opened \in DOMAIN objects
         /\ ObjectOf(e).end = "end"
         /\ ObjectOf(e).bytes = GitBlob(c))
        => /\ e.result = "Ok"
           /\ e.stdout = c

IsHexChar(b) == b \in (48..57) \cup (97..102) \cup (65..70)
IsHashShaped(h) == Len(h) = HashLen /\ \A i \in 1..Len(h) : IsHexChar(h[i])

\* C9: hash shape - cat-file -p with an argument that is not 40 hex
\* characters ends with InvalidInput and has opened no path.
C9_HashShape ==
    \A e \in Entries :
        (IsGet(e) /\ ~IsHashShaped(e.object_hash))
        => /\ e.result = "InvalidInput"
           /\ e.opened = NoPath

\* a complete stream with a header "blob <n>\0" and fewer than n bytes
\* after it
ShortObject(d) ==
    /\ d.end = "end"
    /\ \E n \in 0..(MaxLen + 2) :
          /\ Len(d.bytes) >= Len(GitHeader(n))
          /\ Take(d.bytes, Len(GitHeader(n))) = GitHeader(n)
          /\ Len(d.bytes) < Len(GitHeader(n)) + n

\* C10: size enforcement, short - cat-file -p of an object whose stream
\* ends after fewer content bytes than its header declares ends with
\* SizeMismatch.
C10_SizeShort ==
    \A e \in Entries :
        (IsGet(e) /\ e.opened \in DOMAIN objects /\ ShortObject(ObjectOf(e)))
        => e.result = "SizeMismatch"

C10_Witness ==
    \E e \in Entries :
        /\ IsGet(e) /\ e.opened \in DOMAIN objects
        /\ ShortObject(ObjectOf(e))
        /\ e.result = "SizeMismatch"

\* a stream with a header "blob <n>\0" and more than n bytes after it
LongObject(d) ==
    \E n \in 0..(MaxLen + 2) :
        /\ Len(d.bytes) > Len(GitHeader(n)) + n
        /\ Take(d.bytes, Len(GitHeader(n))) = GitHeader(n)

\* C11: size enforcement, long - cat-file -p of an object whose stream has
\* bytes after the content its header declares ends with SizeMismatch; and
\* a cat-file whose reader has yielded all size bytes and then read 0 bytes
\* has the whole stream behind it.
C11_SizeLong ==
    /\ \A e \in Entries :
          (IsGet(e) /\ e.opened \in DOMAIN objects /\ LongObject(ObjectOf(e)))
          => e.result = "SizeMismatch"
    /\ \A p \in Procs :
          (proc[p].pc = "cat_ensure" /\ proc[p].limit = 0)
          => proc[p].pos = Len(ZlibDecode(files[proc[p].fd], 1).bytes)

C11_Witness ==
    \E e \in Entries :
        /\ IsGet(e) /\ e.opened \in DOMAIN objects
        /\ LongObject(ObjectOf(e))
        /\ ObjectOf(e).bytes = GitHeader(0) \o <<97>>
        /\ e.result = "SizeMismatch"

\* the bytes before the first NUL of the stream d, when it has a NUL
HasNul(d) == IndexOf(d.bytes, NUL) # 0
HeaderOf(d) == Take(d.bytes, IndexOf(d.bytes, NUL) - 1)

\* C12: malformed header, no terminator - cat-file -p of an object whose
\* stream ends without a NUL byte in it ends with the error Corrupt.
C12_NoTerminator ==
    \A e \in Entries :
        (/\ IsGet(e) /\ e.opened \in DOMAIN objects
         /\ ObjectOf(e).end = "end" /\ ~HasNul(ObjectOf(e)))
        => e.result = "Corrupt"

IsDecimal(token) ==
    token # <<>> /\ \A i \in 1..Len(token) : token[i] \in 48..57

\* C13: malformed header, bad fields - cat-file -p of an object whose
\* header has no space ends with Corrupt, and so does one whose header is
\* "blob " and a token that is not a run of one or more digits 0-9.
C13_BadFields ==
    \A e \in Entries :
        (/\ IsGet(e) /\ e.opened \in DOMAIN objects
         /\ ObjectOf(e).end = "end" /\ HasNul(ObjectOf(e)))
        => LET h == HeaderOf(ObjectOf(e))
           IN  /\ IndexOf(h, SP) = 0 => e.result = "Corrupt"
               /\ (/\ Take(h, Len(blob) + 1) = blob \o <<SP>>
                   /\ ~IsDecimal(Drop(h, Len(blob) + 1)))
                  => e.result = "Corrupt"

\* the header of d has a space and the token before it is not "blob"
OtherKind(d) ==
    /\ HasNul(d)
    /\ IndexOf(HeaderOf(d), SP) # 0
    /\ Take(HeaderOf(d), IndexOf(HeaderOf(d), SP) - 1) # blob

\* C14 as stated: cat-file -p of an object whose header has a space and a
\* kind token other than "blob" ends with UnsupportedKind.
C14_AnyOtherKind ==
    \A e \in Entries :
        (IsGet(e) /\ e.opened \in DOMAIN objects /\ OtherKind(ObjectOf(e)))
        => e.result = "UnsupportedKind"

\* C14: unsupported kind - cat-file -p of an object whose header is UTF-8,
\* has a space and a kind token other than "blob" ends with
\* UnsupportedKind, whatever the size token and the content are.
C14_UnsupportedKind ==
    \A e \in Entries :
        (/\ IsGet(e) /\ e.opened \in DOMAIN objects
         /\ OtherKind(ObjectOf(e)) /\ IsUtf8(HeaderOf(ObjectOf(e))))
        => e.result = "UnsupportedKind"

C14_Witness ==
    \E e \in Entries :
        /\ IsGet(e) /\ e.opened \in DOMAIN objects
        /\ ObjectOf(e).bytes = tree \o <<SP>> \o <<120>> \o <<NUL>> \o <<97>>
        /\ e.result = "UnsupportedKind"

\* ---------------------------------------------------------------------- C15
\* the invocation that ended in this step, as a set of at most one entry
Ended == IF Len(history') = Len(history) + 1
         THEN {history'[Len(history')]} ELSE {}

Store == <<repo, fanout, files, tmp, objects>>

\* C15: cat-file -p on a 40-hex-character hash with no file at its object
\* path fails with NotFound, and leaves the file system as it was.
C15_MissingObject ==
    [][\A e \in Ended :
         (/\ IsGet(e) /\ e.pretty_print /\ IsHashShaped(e.object_hash)
          /\ ObjectPath(e.object_hash) \notin DOMAIN objects)
         => (e.result = "NotFound" /\ Store' = Store)]_vars

\* a cat-file -p of a well-formed hash has ended with NotFound while the
\* store holds another object
C15_Witness ==
    \E e \in Entries :
        /\ IsGet(e) /\ e.pretty_print /\ IsHashShaped(e.object_hash)
        /\ e.result = "NotFound"
        /\ ObjectPath(e.object_hash) \notin DOMAIN objects
        /\ objects # EmptyFn

\* ---------------------------------------------------------------------- C16
\* this step is taken by a hash-object that was started without -w
DryRunStep ==
    \E p \in Procs :
        /\ proc'[p] # proc[p]
        /\ \/ proc[p].cmd = "hash-object" /\ ~proc[p].write
           \/ proc[p].pc = "idle" /\ proc'[p].cmd = "hash-object"
              /\ ~proc'[p].write

\* a dry run and a -w run that both printed, for the same content, printed
\* the same line
SameHashEitherWay ==
    \A e1, e2 \in Entries :
        (/\ e1.cmd = "hash-object" /\ ~e1.write /\ e1.result = "Ok"
         /\ IsPut(e2) /\ e2.result = "Ok" /\ e1.file = e2.file)
        => e1.stdout = e2.stdout

\* C16: hash-object without -w prints the hash that hash-object -w prints
\* for the same content, and no step of it creates, truncates, renames or
\* modifies a file: the temporary file and the object directory stay as
\* they were.
C16_DryRun ==
    [][(DryRunStep => Store' = Store) /\ SameHashEitherWay']_vars

\* both a dry run and a -w run of the same content have printed a hash
C16_Witness ==
    \E e1, e2 \in Entries :
        /\ e1.cmd = "hash-object" /\ ~e1.write /\ e1.result = "Ok"
        /\ IsPut(e2) /\ e2.result = "Ok" /\ e1.file = e2.file
        /\ e1.stdout # <<>>

\* ---------------------------------------------------------------------- C17
\* the files under .git/objects: which paths there are and what each holds
ObjectContents == [path \in DOMAIN objects |-> files[objects[path]]]

\* this step is taken by the hash-object -w that process p runs
PutStep(p) ==
    /\ proc'[p] # proc[p]
    /\ \/ proc[p].cmd = "hash-object" /\ proc[p].write
       \/ proc[p].pc = "idle" /\ proc'[p].cmd = "hash-object"
          /\ proc'[p].write

\* C17: a hash-object -w that fails reports no hash and has left the set
\* and the contents of the object files as they were: the only step of a
\* put that alters an object file is the rename of a put that succeeds, and
\* a put that ends with an error has printed nothing.
C17_FailedPut ==
    [][\A p \in Procs :
         (PutStep(p) /\ ~\E e \in Ended : e.proc = p /\ e.result = "Ok")
         => /\ ObjectContents' = ObjectContents
            /\ \A e \in Ended : e.proc = p => e.stdout = <<>>]_vars

\* ---------------------------------------------------------------------- C18
\* the size a blob stream declares: the decimal between the kind (and the
\* space after it, when there is one) and the first NUL; -1 when the
\* stream has no such header
DeclaredSize(stream) ==
    LET nul == IndexOf(stream, NUL)
        rest == SubSeq(stream, Len(blob) + 1, nul - 1)
        token == IF rest # <<>> /\ rest[1] = SP THEN Tail(rest) ELSE rest
    IN  IF nul = 0 \/ Take(stream, Len(blob)) # blob \/ ~IsDecimal(token)
        THEN -1 ELSE DigitsValue(token)

\* C18: in every object file hash-object -w has produced, the decimal size
\* of the header is the number of content bytes that follow the header's
\* NUL, also when another program changed the input file between the stat
\* that gave the size and the copy that streamed the content.
C18_HeaderSize ==
    \A path \in DOMAIN objects :
        LET d == ZlibDecode(files[objects[path]], 1)
        IN  d.end = "end"
            => DeclaredSize(d.bytes) = Len(d.bytes) - IndexOf(d.bytes, NUL)

\* ---------------------------------------------------------------------- C19
\* the decoded bytes the source of p's LimitReader has not delivered yet
Undelivered(p) ==
    Max(0, Len(ZlibDecode(files[proc[p].fd], 1).bytes) - proc[p].pos)

\* C19: the LimitReader of cat-file, for every declared size, source and
\* buffer length: a read that succeeds returns every byte the source
\* delivered, takes exactly that number off the remaining count, which
\* stays at or above zero, so the total returned never exceeds the size;
\* a read that fails for the limit is one whose source had more bytes than
\* remained, and it returns no count.
C19_BoundedReader ==
    [][\A p \in Procs :
         (proc[p].pc = "cat_copy" /\ proc'[p] # proc[p])
         => IF proc'[p].pc \in {"cat_copy", "cat_ensure"}
            THEN LET returned == proc'[p].n - proc[p].n
                 IN  /\ returned >= 0
                     /\ returned = proc'[p].pos - proc[p].pos
                     /\ proc'[p].limit = proc[p].limit - returned
                     /\ proc'[p].limit >= 0
                     /\ proc'[p].n <= proc[p].size
                     /\ proc'[p].n + proc'[p].limit = proc[p].size
                     /\ proc'[p].buf = proc[p].buf \o
                           SubSeq(ZlibDecode(files[proc[p].fd], 1).bytes,
                                  proc[p].pos + 1, proc'[p].pos)
            ELSE \A e \in Ended :
                    e.result = "SizeMismatch"
                    => Undelivered(p) > proc[p].limit]_vars

\* a LimitReader has returned bytes, nothing remains of its size, and its
\* source has more to deliver
C19_Witness ==
    \E p \in Procs :
        /\ proc[p].pc = "cat_copy"
        /\ proc[p].n > 0
        /\ proc[p].limit = 0
        /\ Undelivered(p) > 0

\* ---------------------------------------------------------------------- C20
\* s is the beginning of t
IsPrefix(s, t) == Len(s) <= Len(t) /\ SubSeq(t, 1, Len(s)) = s

\* C20: through every sequence of HashWriter::write calls, whatever part
\* of each buffer the encoder takes: a call adds to the digest exactly the
\* bytes the encoder took in that call, in order, so the digest covers the
\* concatenation of all the encoder took; those are bytes of the header
\* and content as given, not the compressed output; a call that fails adds
\* nothing.
C20_StreamingHasher ==
    [][\A p \in Procs :
         (proc[p].pc \in {"w_kind", "w_size", "w_copy"}
          /\ proc'[p] # proc[p])
         => LET w == proc[p].w
                after == proc'[p].w
                taken == Drop(after.writer, Len(w.writer))
            IN  /\ after.writer = w.writer \o taken
                /\ IsPrefix(taken, proc[p].todo)
                /\ after.hasher = w.hasher \o taken
                /\ after.hasher = after.writer
                /\ \A i \in 1..Len(after.hasher) : after.hasher[i] < ZBase
                /\ proc'[p].pc = "w_err" => after = w]_vars

\* the encoder took "bl" of "blob" in one call and the next call failed
C20_Witness ==
    \E p \in Procs :
        /\ proc[p].pc = "w_err"
        /\ proc[p].w.hasher = Take(blob, 2)
        /\ proc[p].todo = Drop(blob, 2)

====
